---- MODULE Spec2Model ----
(***************************************************************************)
(* Credit-card payment eligibility function (Shopify payment customization) *)
(* in its two variants: the extended policy                                 *)
(* (extensions/cc-payment-eligibility/src/cart_payment_methods_transform_   *)
(* run.js) and the base policy (the earlier copy of the same function).     *)
(*                                                                          *)
(* JavaScript values are tagged records: [t |-> "undefined"],               *)
(* [t |-> "null"], [t |-> "string", v |-> <<chars>>],                       *)
(* [t |-> "number", v |-> n], [t |-> "boolean", v |-> b],                   *)
(* [t |-> "array", v |-> <<...>>] and [t |-> "object", field |-> ...].      *)
(* A property that is missing from an object is carried as a field holding  *)
(* UNDEFINED: reading it gives undefined either way.                        *)
(***************************************************************************)
EXTENDS Integers, Sequences, FiniteSets, TLC

\* evaluated: the host has taken the outcome of an earlier evaluation.
VARIABLES policy, NO_CHANGES, input, pc, ccPaymentMethod, calls, log, result,
          evaluated

\* The inventory routes: action[r] holds the locals of the action of route r
\* while it serves a request; stored is the platform's available quantity
\* of the product's inventory item at its location.
VARIABLES action, stored

cartVars == <<policy, NO_CHANGES, input, pc, ccPaymentMethod, calls, log, result,
              evaluated>>

inventoryVars == <<action, stored>>

\* The inventory webhook: delivery[w] holds the state of the handler's
\* action for webhook w and of the processWebhookAsync call it started;
\* webhookEvent is the table that logInventoryWebhook writes to.
VARIABLES delivery, webhookEvent

webhookVars == <<delivery, webhookEvent>>

vars == <<cartVars, inventoryVars, webhookVars>>

(***************************************************************************)
(* Bounds of the model.                                                     *)
(***************************************************************************)
MaxMethods == 2
MaxLines == 2
MaxGroups == 2
\* The largest quantity the platform stores.
MaxQuantity == 3
\* The most operations a caller adds to the list of a returned Decision.
MaxAppended == 1
\* The number of webhooks the platform delivers.
MaxWebhooks == 2

(***************************************************************************)
(* JavaScript values.                                                       *)
(***************************************************************************)
UNDEFINED == [t |-> "undefined"]
NULL == [t |-> "null"]
Str(s) == [t |-> "string", v |-> s]
Num(n) == [t |-> "number", v |-> n]
Bool(b) == [t |-> "boolean", v |-> b]
Arr(s) == [t |-> "array", v |-> s]

IsNullish(x) == x.t \in {"undefined", "null"}

\* ToBoolean: the values `!x`, `x && ...` and `x || ...` treat as false.
Falsy(x) ==
  CASE x.t \in {"undefined", "null"} -> TRUE
    [] x.t = "string" -> x.v = <<>>
    [] x.t = "number" -> x.v = 0
    [] x.t = "boolean" -> ~x.v
    [] OTHER -> FALSE

\* x.k on a value that is not nullish (a property read of a primitive, or
\* of an object without that property, gives undefined).
Get(x, k) == IF x.t = "object" /\ k \in DOMAIN x THEN x[k] ELSE UNDEFINED

\* x?.k
OptGet(x, k) == IF IsNullish(x) THEN UNDEFINED ELSE Get(x, k)

\* x.k throws a TypeError when x is undefined or null.
Throws(x) == IsNullish(x)

(***************************************************************************)
(* Strings are sequences of one-character strings.                          *)
(***************************************************************************)
UpperChars == <<"A", "B", "C", "D", "E", "F", "G", "H", "I", "J", "K", "L", "M",
                "N", "O", "P", "Q", "R", "S", "T", "U", "V", "W", "X", "Y", "Z">>
LowerChars == <<"a", "b", "c", "d", "e", "f", "g", "h", "i", "j", "k", "l", "m",
                "n", "o", "p", "q", "r", "s", "t", "u", "v", "w", "x", "y", "z">>

toLowerChar(c) ==
  IF \E i \in DOMAIN UpperChars : UpperChars[i] = c
  THEN LowerChars[CHOOSE i \in DOMAIN UpperChars : UpperChars[i] = c]
  ELSE c

\* String.prototype.toLowerCase
toLowerCase(s) == [i \in 1..Len(s) |-> toLowerChar(s[i])]

\* String.prototype.includes
includes(s, sub) ==
  \E i \in 0..(Len(s) - Len(sub)) : SubSeq(s, i + 1, i + Len(sub)) = sub

(***************************************************************************)
(* String literals of the program.                                          *)
(***************************************************************************)
S_true == <<"t", "r", "u", "e">>
S_false == <<"f", "a", "l", "s", "e">>
S_ProductVariant == <<"P", "r", "o", "d", "u", "c", "t", "V", "a", "r", "i", "a", "n", "t">>
S_gift == <<"g", "i", "f", "t">>
S_credit == <<"c", "r", "e", "d", "i", "t">>
S_bogus == <<"b", "o", "g", "u", "s">>
S_stripe == <<"s", "t", "r", "i", "p", "e">>
S_card == <<"c", "a", "r", "d">>
S_visa == <<"v", "i", "s", "a">>
S_mastercard == <<"m", "a", "s", "t", "e", "r", "c", "a", "r", "d">>
S_home_delivery == <<"h", "o", "m", "e", " ", "d", "e", "l", "i", "v", "e", "r", "y">>
S_express_saver == <<"e", "x", "p", "r", "e", "s", "s", " ", "s", "a", "v", "e", "r">>

\* Hardcoded threshold: products over 150 lbs are considered non-parcel.
PARCEL_WEIGHT_THRESHOLD_LBS == 150

\* The two variants of the policy.
Policies == {"base", "extended"}

\* A line written by console.log: the check it belongs to and its text
\* (the template, without the interpolated values).
Line(check, msg) == [check |-> check, msg |-> msg]

(***************************************************************************)
(* Target resolver.                                                         *)
(***************************************************************************)
\* The callback of paymentMethods.find, extended policy: names holding
\* "gift" are refused before the allow-list is consulted.
matchesExtended(method) ==
  IF Falsy(Get(method, "name")) THEN FALSE
  ELSE LET nameLower == toLowerCase(method.name.v)
       IN  IF includes(nameLower, S_gift) THEN FALSE
           ELSE \/ includes(nameLower, S_credit)
                \/ includes(nameLower, S_bogus)
                \/ includes(nameLower, S_stripe)

\* The callback of paymentMethods.find, base policy.
matchesBase(method) ==
  IF Falsy(Get(method, "name")) THEN FALSE
  ELSE \/ includes(toLowerCase(method.name.v), S_credit)
       \/ includes(toLowerCase(method.name.v), S_card)
       \/ includes(toLowerCase(method.name.v), S_visa)
       \/ includes(toLowerCase(method.name.v), S_mastercard)

matches(pol, method) ==
  IF pol = "extended" THEN matchesExtended(method) ELSE matchesBase(method)

\* Faulty variant: the last accepted element is returned instead of the first.
findCreditCardPaymentMethod_Last(pol, paymentMethods) ==
  IF Falsy(paymentMethods) THEN NULL
  ELSE LET ms == paymentMethods.v
           hits == {i \in DOMAIN ms : matches(pol, ms[i])}
       IN  IF hits = {} THEN UNDEFINED
           ELSE ms[CHOOSE i \in hits : \A j \in hits : i >= j]

\* null for a falsy list, else Array.prototype.find: the first element the
\* callback accepts, undefined when there is none.
findCreditCardPaymentMethod(pol, paymentMethods) ==
  IF Falsy(paymentMethods) THEN NULL
  ELSE LET ms == paymentMethods.v
           hits == {i \in DOMAIN ms : matches(pol, ms[i])}
       IN  IF hits = {} THEN UNDEFINED
           ELSE ms[CHOOSE i \in hits : \A j \in hits : i <= j]

(***************************************************************************)
(* Predicate checks.  Each gives [ret, threw, log]: the value returned, or  *)
(* threw = TRUE when a TypeError leaves the function, and the lines it      *)
(* wrote before that.                                                       *)
(***************************************************************************)
Returned(b, lines) == [ret |-> b, threw |-> FALSE, log |-> lines]
Threw(lines) == [ret |-> FALSE, threw |-> TRUE, log |-> lines]

\* Faulty variant: any truthy attribute value is taken for eligibility.
isCustomerEligible_Truthy(customer) ==
  IF Falsy(customer)
  THEN Returned(FALSE, <<Line("customer", "No customer found - hiding CC")>>)
  ELSE LET ccPilotEligible == OptGet(Get(customer, "ccPilotEligible"), "value")
       IN  IF Falsy(ccPilotEligible)
           THEN Returned(FALSE, <<Line("customer", "Customer not pilot eligible")>>)
           ELSE Returned(TRUE, <<>>)

isCustomerEligible(customer) ==
  IF Falsy(customer)
  THEN Returned(FALSE, <<Line("customer", "No customer found - hiding CC")>>)
  ELSE LET ccPilotEligible == OptGet(Get(customer, "ccPilotEligible"), "value")
       IN  IF ccPilotEligible # Str(S_true)
           THEN Returned(FALSE, <<Line("customer", "Customer not pilot eligible")>>)
           ELSE Returned(TRUE, <<>>)

\* Faulty variant: a missing purchasing company is refused like a missing customer.
isLocationEligible_DenyB2C(purchasingCompany) ==
  IF Falsy(purchasingCompany)
  THEN Returned(FALSE, <<Line("location", "No purchasing company")>>)
  ELSE LET location == Get(purchasingCompany, "location")
       IN  IF Falsy(location)
           THEN Returned(FALSE, <<Line("location",
                          "No location found for B2B customer - hiding CC")>>)
           ELSE LET ccLocationEligible ==
                      OptGet(Get(location, "ccLocationEligible"), "value")
                IN  IF ccLocationEligible # Str(S_true)
                    THEN Returned(FALSE, <<Line("location", "Location not eligible")>>)
                    ELSE Returned(TRUE, <<Line("location", "Location is eligible for CC")>>)

isLocationEligible(purchasingCompany) ==
  IF Falsy(purchasingCompany)
  THEN Returned(TRUE, <<Line("location",
                 "No purchasing company - B2C customer - skipping location check")>>)
  ELSE LET location == Get(purchasingCompany, "location")
       IN  IF Falsy(location)
           THEN Returned(FALSE, <<Line("location",
                          "No location found for B2B customer - hiding CC")>>)
           ELSE LET ccLocationEligible ==
                      OptGet(Get(location, "ccLocationEligible"), "value")
                IN  IF ccLocationEligible # Str(S_true)
                    THEN Returned(FALSE, <<Line("location", "Location not eligible")>>)
                    ELSE Returned(TRUE, <<Line("location", "Location is eligible for CC")>>)

\* Allowed shipping methods for CC payment.
allowedMethods == <<S_home_delivery, S_express_saver>>

\* x?.toLowerCase() || ""
lowerOrEmpty(x) == IF IsNullish(x) THEN <<>> ELSE toLowerCase(x.v)

\* Faulty variant: the title must equal an allowed method instead of containing it.
isAllowed_Exact(title, handle) ==
  \E k \in DOMAIN allowedMethods : title = allowedMethods[k]

\* allowedMethods.some(method => title.includes(method))
isAllowed(title, handle) ==
  \E k \in DOMAIN allowedMethods : includes(title, allowedMethods[k])

\* Faulty variant: the first selected group decides for all the groups.
RECURSIVE shippingLoop_FirstDecides(_, _)
shippingLoop_FirstDecides(groups, i) ==
  IF i > Len(groups) THEN Returned(TRUE, <<>>)
  ELSE LET selectedOption == Get(groups[i], "selectedDeliveryOption")
       IN  IF Falsy(selectedOption)
           THEN shippingLoop_FirstDecides(groups, i + 1)
           ELSE Returned(isAllowed(lowerOrEmpty(Get(selectedOption, "title")),
                                   lowerOrEmpty(Get(selectedOption, "handle"))),
                         <<Line("shipping", "Selected shipping")>>)

\* The body of the loop over the delivery groups from group i on.
RECURSIVE shippingLoop(_, _)
shippingLoop(groups, i) ==
  IF i > Len(groups) THEN Returned(TRUE, <<>>)
  ELSE LET selectedOption == Get(groups[i], "selectedDeliveryOption")
       IN  IF Falsy(selectedOption)
           THEN LET rest == shippingLoop(groups, i + 1)
                IN  [rest EXCEPT !.log =
                       <<Line("shipping", "No shipping method selected yet - allowing CC")>>
                       \o rest.log]
           ELSE LET title == lowerOrEmpty(Get(selectedOption, "title"))
                    handle == lowerOrEmpty(Get(selectedOption, "handle"))
                    sel == <<Line("shipping", "Selected shipping")>>
                IN  IF ~isAllowed(title, handle)
                    THEN Returned(FALSE, sel \o
                           <<Line("shipping", "Shipping method not eligible for CC - hiding CC")>>)
                    ELSE LET rest == shippingLoop(groups, i + 1)
                         IN  [rest EXCEPT !.log =
                                sel \o <<Line("shipping", "Shipping method is eligible for CC")>>
                                \o rest.log]

isShippingMethodEligible(deliveryGroups) ==
  IF Falsy(deliveryGroups) \/ Len(deliveryGroups.v) = 0
  THEN Returned(TRUE, <<Line("shipping", "No delivery groups - allowing CC by default")>>)
  ELSE shippingLoop(deliveryGroups.v, 1)

\* Faulty variant: the comparison with the threshold is not strict.
exceedsWeightLimit_Inclusive(weight) ==
  weight.t = "number" /\ weight.v >= PARCEL_WEIGHT_THRESHOLD_LBS

\* weight > PARCEL_WEIGHT_THRESHOLD_LBS, on a weight that is a number.
exceedsWeightLimit(weight) ==
  weight.t = "number" /\ weight.v > PARCEL_WEIGHT_THRESHOLD_LBS

\* One pass of the loop body over a cart line, extended policy: "pass" when
\* the loop goes on, "fail" on return false, "throw" on a TypeError.
Verdict(v, lines) == [verdict |-> v, log |-> lines]

\* Faulty variant: the extended policy leaves out the weight limit.
parcelLineExtended_NoWeightLimit(line) ==
  LET merchandise == Get(line, "merchandise")
      product == Get(merchandise, "product")
      weight == Get(merchandise, "weight")
  IN  IF Throws(merchandise) THEN Verdict("throw", <<>>)
      ELSE IF Get(merchandise, "__typename") # Str(S_ProductVariant)
      THEN Verdict("fail", <<Line("parcel", "Non-product variant found - hiding CC")>>)
      ELSE IF weight = NULL \/ weight = UNDEFINED \/ weight = Num(0)
      THEN IF Throws(product) THEN Verdict("throw", <<>>)
           ELSE Verdict("fail",
                  <<Line("parcel", "Product has no weight - non-parcel - hiding CC")>>)
      ELSE Verdict("pass", <<>>)

parcelLineExtended(line) ==
  LET merchandise == Get(line, "merchandise")
      product == Get(merchandise, "product")
      weight == Get(merchandise, "weight")
  IN  IF Throws(merchandise) THEN Verdict("throw", <<>>)
      ELSE IF Get(merchandise, "__typename") # Str(S_ProductVariant)
      THEN Verdict("fail", <<Line("parcel", "Non-product variant found - hiding CC")>>)
      ELSE IF weight = NULL \/ weight = UNDEFINED \/ weight = Num(0)
      THEN IF Throws(product) THEN Verdict("throw", <<>>)
           ELSE Verdict("fail",
                  <<Line("parcel", "Product has no weight - non-parcel - hiding CC")>>)
      ELSE IF exceedsWeightLimit(weight)
      THEN IF Throws(product) THEN Verdict("throw", <<>>)
           ELSE Verdict("fail",
                  <<Line("parcel", "Product exceeds weight limit - non-parcel - hiding CC")>>)
      ELSE Verdict("pass", <<>>)

\* Faulty variant: the base policy refuses a missing or zero weight as the
\* extended policy does.
parcelLineBase_WeightRequired(line) ==
  LET merchandise == Get(line, "merchandise")
      product == Get(merchandise, "product")
      weight == Get(merchandise, "weight")
  IN  IF Throws(merchandise) THEN Verdict("throw", <<>>)
      ELSE IF Get(merchandise, "__typename") # Str(S_ProductVariant)
      THEN Verdict("fail", <<Line("parcel", "Non-product variant found - hiding CC")>>)
      ELSE IF Throws(product) THEN Verdict("throw", <<>>)
      ELSE IF OptGet(Get(product, "requiresLtl"), "value") = Str(S_true)
      THEN Verdict("fail", <<Line("parcel", "Product requires LTL - hiding CC")>>)
      ELSE IF OptGet(Get(product, "isParcelEligible"), "value") = Str(S_false)
      THEN Verdict("fail", <<Line("parcel", "Product is not parcel eligible - hiding CC")>>)
      ELSE IF Falsy(weight) \/ exceedsWeightLimit(weight)
      THEN Verdict("fail", <<Line("parcel", "Product exceeds weight limit - hiding CC")>>)
      ELSE Verdict("pass", <<>>)

\* Faulty variant: the base policy reads the product's flags before it
\* tests the type of the merchandise.
parcelLineBase_FlagsFirst(line) ==
  LET merchandise == Get(line, "merchandise")
      product == Get(merchandise, "product")
      weight == Get(merchandise, "weight")
  IN  IF Throws(merchandise) THEN Verdict("throw", <<>>)
      ELSE IF Throws(product) THEN Verdict("throw", <<>>)
      ELSE IF OptGet(Get(product, "requiresLtl"), "value") = Str(S_true)
      THEN Verdict("fail", <<Line("parcel", "Product requires LTL - hiding CC")>>)
      ELSE IF OptGet(Get(product, "isParcelEligible"), "value") = Str(S_false)
      THEN Verdict("fail", <<Line("parcel", "Product is not parcel eligible - hiding CC")>>)
      ELSE IF Get(merchandise, "__typename") # Str(S_ProductVariant)
      THEN Verdict("fail", <<Line("parcel", "Non-product variant found - hiding CC")>>)
      ELSE IF ~Falsy(weight) /\ exceedsWeightLimit(weight)
      THEN Verdict("fail", <<Line("parcel", "Product exceeds weight limit - hiding CC")>>)
      ELSE Verdict("pass", <<>>)

\* Faulty variant: any truthy requiresLtl value counts as the flag.
parcelLineBase_TruthyLtl(line) ==
  LET merchandise == Get(line, "merchandise")
      product == Get(merchandise, "product")
      weight == Get(merchandise, "weight")
  IN  IF Throws(merchandise) THEN Verdict("throw", <<>>)
      ELSE IF Get(merchandise, "__typename") # Str(S_ProductVariant)
      THEN Verdict("fail", <<Line("parcel", "Non-product variant found - hiding CC")>>)
      ELSE IF Throws(product) THEN Verdict("throw", <<>>)
      ELSE IF ~Falsy(OptGet(Get(product, "requiresLtl"), "value"))
      THEN Verdict("fail", <<Line("parcel", "Product requires LTL - hiding CC")>>)
      ELSE IF OptGet(Get(product, "isParcelEligible"), "value") = Str(S_false)
      THEN Verdict("fail", <<Line("parcel", "Product is not parcel eligible - hiding CC")>>)
      ELSE IF ~Falsy(weight) /\ exceedsWeightLimit(weight)
      THEN Verdict("fail", <<Line("parcel", "Product exceeds weight limit - hiding CC")>>)
      ELSE Verdict("pass", <<>>)

\* The same, base policy: the product's flags, then the weight.
parcelLineBase(line) ==
  LET merchandise == Get(line, "merchandise")
      product == Get(merchandise, "product")
      weight == Get(merchandise, "weight")
  IN  IF Throws(merchandise) THEN Verdict("throw", <<>>)
      ELSE IF Get(merchandise, "__typename") # Str(S_ProductVariant)
      THEN Verdict("fail", <<Line("parcel", "Non-product variant found - hiding CC")>>)
      ELSE IF Throws(product) THEN Verdict("throw", <<>>)
      ELSE IF OptGet(Get(product, "requiresLtl"), "value") = Str(S_true)
      THEN Verdict("fail", <<Line("parcel", "Product requires LTL - hiding CC")>>)
      ELSE IF OptGet(Get(product, "isParcelEligible"), "value") = Str(S_false)
      THEN Verdict("fail", <<Line("parcel", "Product is not parcel eligible - hiding CC")>>)
      ELSE IF ~Falsy(weight) /\ exceedsWeightLimit(weight)
      THEN Verdict("fail", <<Line("parcel", "Product exceeds weight limit - hiding CC")>>)
      ELSE Verdict("pass", <<>>)

parcelLine(pol, line) ==
  IF pol = "extended" THEN parcelLineExtended(line) ELSE parcelLineBase(line)

\* Faulty variant: the loop examines every line and decides afterwards.
RECURSIVE parcelLoop_ExaminesAll(_, _, _)
parcelLoop_ExaminesAll(pol, lines, i) ==
  IF i > Len(lines) THEN Returned(TRUE, <<>>)
  ELSE LET here == parcelLine(pol, lines[i])
           rest == parcelLoop_ExaminesAll(pol, lines, i + 1)
       IN  CASE here.verdict = "throw" -> Threw(here.log)
             [] rest.threw -> Threw(here.log \o rest.log)
             [] here.verdict = "fail" -> Returned(FALSE, here.log \o rest.log)
             [] OTHER -> [rest EXCEPT !.log = here.log \o rest.log]

\* The loop over the cart lines from line i on.
RECURSIVE parcelLoop(_, _, _)
parcelLoop(pol, lines, i) ==
  IF i > Len(lines) THEN Returned(TRUE, <<>>)
  ELSE LET here == parcelLine(pol, lines[i])
       IN  CASE here.verdict = "throw" -> Threw(here.log)
             [] here.verdict = "fail" -> Returned(FALSE, here.log)
             [] OTHER -> LET rest == parcelLoop(pol, lines, i + 1)
                         IN  [rest EXCEPT !.log = here.log \o rest.log]

\* Faulty variant: a cart without lines is refused.
isCartParcelEligible_EmptyFails(pol, cartLines) ==
  IF Falsy(cartLines) \/ Len(cartLines.v) = 0
  THEN Returned(FALSE, <<Line("parcel", "Empty cart - hiding CC")>>)
  ELSE parcelLoop(pol, cartLines.v, 1)

isCartParcelEligible(pol, cartLines) ==
  IF Falsy(cartLines) \/ Len(cartLines.v) = 0
  THEN Returned(TRUE, <<Line("parcel", "Empty cart - allowing CC")>>)
  ELSE parcelLoop(pol, cartLines.v, 1)

(***************************************************************************)
(* Input documents.                                                         *)
(***************************************************************************)
SeqsUpTo(S, n) == UNION {[1..k -> S] : k \in 0..n}

Digits == <<"1", "2", "3", "4", "5", "6", "7", "8", "9">>

\* Payment methods; the method at position i of the list has id "pm<i>".
N_VisaCreditCard == <<"V", "i", "s", "a", " ", "C", "r", "e", "d", "i", "t", " ",
                      "C", "a", "r", "d">>
N_StoreCreditGiftCard == <<"S", "t", "o", "r", "e", " ", "C", "r", "e", "d", "i", "t",
                           " ", "G", "i", "f", "t", " ", "C", "a", "r", "d">>
N_CashOnDelivery == <<"C", "a", "s", "h", " ", "o", "n", " ", "D", "e", "l", "i", "v",
                      "e", "r", "y">>
N_Stripe == <<"S", "t", "r", "i", "p", "e">>

MethodNames ==
  {UNDEFINED, Str(<<>>), Str(N_VisaCreditCard), Str(N_StoreCreditGiftCard),
   Str(N_CashOnDelivery), Str(N_Stripe)}

PaymentMethod(i, name) ==
  [t |-> "object", id |-> Str(<<"p", "m", Digits[i]>>), name |-> name]

MethodList(names) == Arr([i \in DOMAIN names |-> PaymentMethod(i, names[i])])

MethodLists ==
  {UNDEFINED, NULL} \cup {MethodList(ns) : ns \in SeqsUpTo(MethodNames, MaxMethods)}

MethodReps ==
  {MethodList(<<Str(N_VisaCreditCard)>>),
   MethodList(<<Str(N_StoreCreditGiftCard), Str(N_VisaCreditCard)>>),
   MethodList(<<Str(N_CashOnDelivery)>>)}

\* Customers; the metafield ccPilotEligible is an object {value}, or null.
Metafield(value) == [t |-> "object", value |-> value]

AttributeValues ==
  {Str(S_true), Str(S_false), Str(<<"T", "R", "U", "E">>), Str(<<"1">>), Str(<<>>),
   Num(1), Bool(TRUE), UNDEFINED}

Customer(attribute) == [t |-> "object", ccPilotEligible |-> attribute]

Customers ==
  {UNDEFINED, NULL, Customer(UNDEFINED), Customer(NULL)}
    \cup {Customer(Metafield(v)) : v \in AttributeValues}

CustomerReps ==
  {UNDEFINED, Customer(Metafield(Str(S_true))),
   Customer(Metafield(Str(<<"T", "R", "U", "E">>)))}

CustomerPair == {UNDEFINED, Customer(Metafield(Str(S_true)))}

\* Purchasing companies (B2B) and their location.
Location(attribute) ==
  [t |-> "object", id |-> Str(<<"l", "1">>), name |-> Str(<<"H", "Q">>),
   ccLocationEligible |-> attribute]

PurchasingCompany(location) == [t |-> "object", location |-> location]

Companies ==
  {UNDEFINED, NULL, PurchasingCompany(UNDEFINED), PurchasingCompany(NULL),
   PurchasingCompany(Location(UNDEFINED)), PurchasingCompany(Location(NULL))}
    \cup {PurchasingCompany(Location(Metafield(v))) : v \in AttributeValues}

CompanyReps ==
  {UNDEFINED, PurchasingCompany(Location(Metafield(Str(S_true)))),
   PurchasingCompany(Location(Metafield(Str(S_false))))}

\* Cart lines.
Product(requiresLtl, isParcelEligible) ==
  [t |-> "object", id |-> Str(<<"p", "1">>), requiresLtl |-> requiresLtl,
   isParcelEligible |-> isParcelEligible]

Merchandise(typename, weight, product) ==
  [t |-> "object", __typename |-> Str(typename), weight |-> weight, product |-> product]

CartLine(merchandise) == [t |-> "object", merchandise |-> merchandise]

S_CustomProduct == <<"C", "u", "s", "t", "o", "m", "P", "r", "o", "d", "u", "c", "t">>

Weights == {UNDEFINED, NULL, Num(0), Num(50), Num(150), Num(151), Num(200)}

FlagValues == {UNDEFINED, Metafield(Str(S_true)), Metafield(Str(S_false))}

\* Flags with values that are neither "true" nor "false".
OddlyFlaggedProducts ==
  {Product(Metafield(Bool(TRUE)), Metafield(Str(<<"F", "A", "L", "S", "E">>))),
   Product(Metafield(Str(<<"T", "R", "U", "E">>)), Metafield(Bool(FALSE)))}

Products ==
  {UNDEFINED} \cup {Product(l, p) : l \in FlagValues, p \in FlagValues}
    \cup OddlyFlaggedProducts

PlainProduct == Product(UNDEFINED, UNDEFINED)

\* Every shape of a single line.
CartLines ==
  {CartLine(UNDEFINED)}
    \cup {CartLine(Merchandise(S_ProductVariant, w, p)) : w \in Weights, p \in Products}
    \cup {CartLine(Merchandise(S_CustomProduct, w, p)) :
            w \in Weights,
            p \in {UNDEFINED, PlainProduct, Product(Metafield(Str(S_true)), UNDEFINED)}}

\* The lines that carts of several lines are made of.
CoreLines ==
  {CartLine(UNDEFINED),
   CartLine(Merchandise(S_CustomProduct, Num(50), PlainProduct)),
   CartLine(Merchandise(S_ProductVariant, Num(50), PlainProduct)),
   CartLine(Merchandise(S_ProductVariant, Num(151), PlainProduct)),
   CartLine(Merchandise(S_ProductVariant, UNDEFINED, PlainProduct)),
   CartLine(Merchandise(S_ProductVariant, Num(50),
                        Product(Metafield(Str(S_true)), UNDEFINED))),
   CartLine(Merchandise(S_ProductVariant, Num(0), UNDEFINED))}

LineLists ==
  {UNDEFINED, NULL} \cup {Arr(<<l>>) : l \in CartLines}
    \cup {Arr(ls) : ls \in SeqsUpTo(CoreLines, MaxLines)}

LineReps ==
  {UNDEFINED,
   Arr(<<CartLine(Merchandise(S_ProductVariant, Num(50), PlainProduct))>>),
   Arr(<<CartLine(Merchandise(S_ProductVariant, Num(200), PlainProduct))>>)}

\* Delivery groups.
T_FedExHomeDelivery == <<"F", "e", "d", "E", "x", " ", "H", "o", "m", "e", " ",
                         "D", "e", "l", "i", "v", "e", "r", "y">>
T_FedExGround == <<"F", "e", "d", "E", "x", " ", "G", "r", "o", "u", "n", "d">>
H_ExpressSaver == <<"f", "e", "d", "e", "x", " ", "e", "x", "p", "r", "e", "s", "s", " ",
                    "s", "a", "v", "e", "r">>
H_Ground == <<"f", "e", "d", "e", "x", "-", "g", "r", "o", "u", "n", "d">>

DeliveryOption(title, handle) == [t |-> "object", title |-> title, handle |-> handle]

DeliveryGroup(option) == [t |-> "object", selectedDeliveryOption |-> option]

DeliveryGroups ==
  {DeliveryGroup(UNDEFINED)}
    \cup {DeliveryGroup(DeliveryOption(Str(T_FedExHomeDelivery), Str(H_Ground))),
          DeliveryGroup(DeliveryOption(Str(T_FedExGround), Str(H_Ground))),
          DeliveryGroup(DeliveryOption(Str(T_FedExGround), Str(H_ExpressSaver))),
          DeliveryGroup(DeliveryOption(UNDEFINED, Str(H_ExpressSaver)))}

GroupLists ==
  {UNDEFINED} \cup {Arr(gs) : gs \in SeqsUpTo(DeliveryGroups, MaxGroups)}

GroupReps ==
  {Arr(<<>>),
   Arr(<<DeliveryGroup(DeliveryOption(Str(T_FedExGround), Str(H_Ground)))>>)}

\* The input document of one run.
Document(paymentMethods, customer, purchasingCompany, lines, deliveryGroups) ==
  [t |-> "object",
   paymentMethods |-> paymentMethods,
   cart |-> [t |-> "object",
             buyerIdentity |-> [t |-> "object", customer |-> customer,
                                purchasingCompany |-> purchasingCompany],
             lines |-> lines,
             deliveryGroups |-> deliveryGroups]]

Documents(ms, cs, pcs, ls, gs) ==
  {Document(m, c, p, l, g) : m \in ms, c \in cs, p \in pcs, l \in ls, g \in gs}

\* The documents of the model: each part of the document ranges over all
\* its shapes while the other parts range over their representatives.
Inputs ==
  Documents(MethodLists, CustomerPair, {UNDEFINED}, LineReps, GroupReps)
    \cup Documents(MethodReps, Customers, CompanyReps, LineReps, GroupReps)
    \cup Documents(MethodReps, CustomerReps, Companies, LineReps, GroupReps)
    \cup Documents(MethodReps, CustomerPair, {UNDEFINED}, LineLists, GroupReps)
    \cup Documents(MethodReps, CustomerPair, {UNDEFINED}, LineReps, GroupLists)
    \cup {[t |-> "object", paymentMethods |-> m, cart |-> UNDEFINED] : m \in MethodReps}
    \cup {[t |-> "object", paymentMethods |-> m,
           cart |-> [t |-> "object", buyerIdentity |-> UNDEFINED, lines |-> UNDEFINED,
                     deliveryGroups |-> UNDEFINED]] : m \in MethodReps}

(***************************************************************************)
(* Inventory service (services/inventory.service) and the platform it       *)
(* talks to.                                                                *)
(***************************************************************************)
NaN == [t |-> "NaN"]

isNaN(x) == x = NaN

DecimalDigits == <<"0", "1", "2", "3", "4", "5", "6", "7", "8", "9">>

isDigit(c) == \E i \in DOMAIN DecimalDigits : DecimalDigits[i] = c

digitValue(c) == (CHOOSE i \in DOMAIN DecimalDigits : DecimalDigits[i] = c) - 1

\* The longest prefix of s made of decimal digits.
RECURSIVE digitPrefix(_)
digitPrefix(s) ==
  IF s = <<>> \/ ~isDigit(Head(s)) THEN <<>>
  ELSE <<Head(s)>> \o digitPrefix(Tail(s))

RECURSIVE digitsValue(_)
digitsValue(d) ==
  IF d = <<>> THEN 0
  ELSE 10 * digitsValue(SubSeq(d, 1, Len(d) - 1)) + digitValue(d[Len(d)])

RECURSIVE trimStart(_)
trimStart(s) == IF s # <<>> /\ Head(s) = " " THEN trimStart(Tail(s)) ELSE s

RECURSIVE naturalToString(_)
naturalToString(n) ==
  IF n < 10 THEN <<DecimalDigits[n + 1]>>
  ELSE naturalToString(n \div 10) \o <<DecimalDigits[(n % 10) + 1]>>

S_undefined == <<"u", "n", "d", "e", "f", "i", "n", "e", "d">>
S_null == <<"n", "u", "l", "l">>

\* ToString of a string, an integer number, undefined or null.
toString(x) ==
  CASE x.t = "string" -> x.v
    [] x.t = "number" -> IF x.v < 0 THEN <<"-">> \o naturalToString(-x.v)
                         ELSE naturalToString(x.v)
    [] x.t = "undefined" -> S_undefined
    [] OTHER -> S_null

\* parseInt(x), radix 10: leading blanks are skipped, a sign is read, then
\* the digits up to the first other character; NaN without a digit.
parseInt(x) ==
  LET s == trimStart(toString(x))
      negative == s # <<>> /\ Head(s) = "-"
      unsigned == IF s # <<>> /\ Head(s) \in {"+", "-"} THEN Tail(s) ELSE s
      digits == digitPrefix(unsigned)
  IN  IF digits = <<>> THEN NaN
      ELSE Num(IF negative THEN 0 - digitsValue(digits) ELSE digitsValue(digits))

validateInventoryInput(productId, quantityChange) ==
  IF Falsy(productId)
  THEN [isValid |-> FALSE, error |-> "Product ID is required"]
  ELSE IF Falsy(quantityChange) \/ isNaN(parseInt(quantityChange))
  THEN [isValid |-> FALSE, error |-> "Valid quantity change is required"]
  ELSE [isValid |-> TRUE, quantityDelta |-> parseInt(quantityChange)]

\* String.prototype.startsWith
startsWith(s, prefix) == Len(s) >= Len(prefix) /\ SubSeq(s, 1, Len(prefix)) = prefix

S_gidScheme == <<"g", "i", "d", ":", "/", "/">>
S_gidProduct == <<"g", "i", "d", ":", "/", "/", "s", "h", "o", "p", "i", "f", "y", "/", "P", "r", "o", "d", "u", "c", "t", "/">>

\* The product id in GraphQL format.
gidOf(productId) ==
  IF startsWith(productId.v, S_gidScheme) THEN productId.v
  ELSE S_gidProduct \o productId.v

\* The one product of the shop, with one variant, tracked at one location.
ShopProduct == S_gidProduct \o <<"1">>

\* getProductInventoryData: null for an unknown product, else the inventory
\* item with the available quantity the platform holds (`quantity || 0`).
getProductInventoryData(productId, available) ==
  IF gidOf(productId) # ShopProduct THEN NULL
  ELSE [t |-> "object", inventoryItemId |-> Str(<<"i", "1">>),
        locationId |-> Str(<<"l", "1">>),
        currentQuantity |-> IF Falsy(Num(available)) THEN Num(0) ELSE Num(available)]

\* Faulty variant: the sum is submitted as it is.
newQuantityOf_NoClamp(currentQuantity, quantityDelta) ==
  Num(currentQuantity.v + quantityDelta.v)

\* Math.max(0, currentQuantity + quantityDelta)
newQuantityOf(currentQuantity, quantityDelta) ==
  LET sum == currentQuantity.v + quantityDelta.v
  IN  Num(IF 0 > sum THEN 0 ELSE sum)

\* Faulty variant: the quantity is sent without compareQuantity.
setQuantitiesInput_NoCompare(newQuantity, currentQuantity) ==
  [quantity |-> newQuantity.v]

\* The element of `quantities` in the variables of the mutation.
setQuantitiesInput(newQuantity, currentQuantity) ==
  [quantity |-> newQuantity.v, compareQuantity |-> currentQuantity.v]

\* inventorySetQuantities on the platform: the call is refused with a user
\* error when compareQuantity is not the quantity the platform holds, or
\* when the quantity is more than the platform stores.
setQuantitiesRefused(quantities, available) ==
  \/ "compareQuantity" \in DOMAIN quantities /\ quantities.compareQuantity # available
  \/ quantities.quantity > MaxQuantity

\* What updateInventory returns from the change the platform reports:
\* change?.quantityAfterChange || currentQuantity + (change?.delta || 0).
updateInventoryResult(currentQuantity, change) ==
  LET delta == IF Falsy(OptGet(change, "delta")) THEN Num(0) ELSE change.delta
      after == OptGet(change, "quantityAfterChange")
  IN  [newQuantity |-> IF Falsy(after) THEN Num(currentQuantity.v + delta.v) ELSE after,
       delta |-> delta]

Routes == {"admin", "proxy"}

\* The locals of an action that serves no request.  (raced is history: a
\* write of another request that had read the same quantity was applied
\* after this request read it.)
Idle ==
  [pc |-> "idle", productId |-> UNDEFINED, quantityChange |-> UNDEFINED,
   quantityDelta |-> UNDEFINED, currentQuantity |-> UNDEFINED,
   newQuantity |-> UNDEFINED, submitted |-> UNDEFINED, response |-> UNDEFINED,
   raced |-> FALSE]

\* What a request carries.  The admin form sends strings, and null for a
\* missing field; the proxy sends a JSON body, whose fields are strings or
\* numbers, or are missing.
ProductIds(r) ==
  {Str(<<"1">>), Str(<<"9">>), Str(ShopProduct), IF r = "admin" THEN NULL ELSE UNDEFINED}

QuantityChanges(r) ==
  IF r = "admin"
  THEN {NULL, Str(<<>>), Str(<<"a", "b", "c">>), Str(<<"0">>), Str(<<"+", "2">>),
        Str(<<"-", "1">>), Str(<<"-", "5">>)}
  ELSE {UNDEFINED, Num(0), Num(1), Num(0 - 2), Str(<<" ", "3", "x">>), Str(<<"-", "4">>)}

(***************************************************************************)
(* Inventory webhook (routes/webhooks.inventory_levels.update) and the      *)
(* webhook logger service.                                                  *)
(***************************************************************************)
Webhooks == 1..MaxWebhooks

\* new Response('OK', { status: 200 })
okResponse == [status |-> 200, body |-> "OK"]

\* The payload of a webhook, as authenticate.webhook hands it over.
Payload(inventory_item_id, location_id, available) ==
  [t |-> "object", inventory_item_id |-> inventory_item_id,
   location_id |-> location_id, available |-> available]

Payloads ==
  {NULL, Payload(Num(1), Num(1), Num(0)), Payload(Num(1), Num(1), Num(3)),
   Payload(UNDEFINED, UNDEFINED, UNDEFINED)}

\* A webhook that has not arrived.
NotDelivered ==
  [pc |-> "waiting", valid |-> FALSE, payload |-> UNDEFINED, response |-> UNDEFINED,
   processing |-> "none", failure |-> "none"]

\* Faulty variant: processWebhookAsync without its try/catch.
settled_Rethrown(failure) == IF failure = "none" THEN "fulfilled" ELSE "rejected"

\* How the promise of processWebhookAsync settles when its body is over:
\* the catch block logs the error and returns, so the promise is fulfilled.
settled(failure) == "fulfilled"

\* x || ''  and  x || 0
orDefault(x, default) == IF Falsy(x) THEN default ELSE x

\* The row that logInventoryWebhook creates for webhook w.
loggedEvent(w, payload) ==
  [webhook |-> w,
   inventoryItemId |-> toString(orDefault(Get(payload, "inventory_item_id"), Str(<<>>))),
   locationId |-> toString(orDefault(Get(payload, "location_id"), Str(<<>>))),
   available |-> orDefault(Get(payload, "available"), Num(0)),
   pimStatus |-> "sent"]

(***************************************************************************)
(* cartPaymentMethodsTransformRun, one action per step of its body.         *)
(***************************************************************************)
Pending == [kind |-> "pending"]

\* `return NO_CHANGES`: the module's one NO_CHANGES object is handed out.
returnNoChanges(noChanges) ==
  [kind |-> "return", ref |-> "NO_CHANGES", operations |-> noChanges]

\* Faulty variant: the hide operation names the first method of the list.
hideResult_FirstMethod(method) ==
  [kind |-> "return", ref |-> "fresh",
   operations |-> <<[paymentMethodHide |->
                       [paymentMethodId |-> Get(Get(input, "paymentMethods").v[1], "id")]]>>]

\* The object literal built before each `return result`.
hideResult(method) ==
  [kind |-> "return", ref |-> "fresh",
   operations |-> <<[paymentMethodHide |-> [paymentMethodId |-> Get(method, "id")]]>>]

Thrown == [kind |-> "throw"]

\* Faulty variant: the parcel check is moved in front of the customer check.
checkOrder_ParcelFirst(pol) ==
  IF pol = "extended" THEN <<"parcel", "customer", "location", "shipping">>
  ELSE <<"parcel", "customer">>

\* The checks in the order of the function's body.
checkOrder(pol) ==
  IF pol = "extended" THEN <<"customer", "location", "parcel", "shipping">>
  ELSE <<"customer", "parcel">>

\* Faulty variant: a failed check does not leave the function.
afterCheck_NoShortCircuit(pol, check, ok) ==
  LET order == checkOrder(pol)
      i == CHOOSE k \in DOMAIN order : order[k] = check
  IN  IF i < Len(order) THEN order[i + 1] ELSE "done"

\* Where control goes after a check: out of the function when the check
\* failed, else to the next check, else to the final return.
afterCheck(pol, check, ok) ==
  IF ~ok THEN "done"
  ELSE LET order == checkOrder(pol)
           i == CHOOSE k \in DOMAIN order : order[k] = check
       IN  IF i < Len(order) THEN order[i + 1] ELSE "completed"

TypeOK ==
  /\ policy \in Policies
  /\ pc \in {"idle", "resolve", "customer", "location", "parcel", "shipping",
             "completed", "done"}
  /\ result.kind \in {"pending", "return", "throw"}
  /\ evaluated \in BOOLEAN
  /\ stored \in 0..MaxQuantity
  /\ \A r \in Routes :
       action[r].pc \in {"idle", "validated", "read", "responded"}
  /\ \A w \in Webhooks :
       /\ delivery[w].pc \in {"waiting", "authenticating", "answered"}
       /\ delivery[w].processing
            \in {"none", "logging", "notifying", "fulfilled", "rejected"}

Init ==
  /\ policy \in Policies
  /\ NO_CHANGES = <<>>
  /\ input = UNDEFINED
  /\ pc = "idle"
  /\ ccPaymentMethod = UNDEFINED
  /\ calls = <<>>
  /\ log = <<>>
  /\ result = Pending
  /\ evaluated = FALSE
  /\ action = [r \in Routes |-> Idle]
  /\ stored = 0
  /\ delivery = [w \in Webhooks |-> NotDelivered]
  /\ webhookEvent = {}

\* The host runs the function on a document.
Invoke ==
  /\ pc = "idle"
  /\ \E doc \in Inputs : input' = doc
  /\ pc' = "resolve"
  /\ ccPaymentMethod' = UNDEFINED
  /\ calls' = <<>>
  /\ log' = <<Line("main", "=== CC Payment Eligibility Function Started ==="),
              Line("main", "Full input:")>>
  /\ result' = Pending
  /\ UNCHANGED <<policy, NO_CHANGES, evaluated>>
  /\ UNCHANGED inventoryVars
  /\ UNCHANGED webhookVars

\* Faulty variant: the early return for a missing target is left out.
ResolveTarget_NoEarlyReturn ==
  /\ pc = "resolve"
  /\ ccPaymentMethod' = findCreditCardPaymentMethod(policy, Get(input, "paymentMethods"))
  /\ log' = log \o <<Line("resolve", "Found CC payment method:")>>
  /\ pc' = "customer"
  /\ UNCHANGED <<policy, NO_CHANGES, evaluated, input, calls, result>>
  /\ UNCHANGED inventoryVars
  /\ UNCHANGED webhookVars

\* Find the credit card payment method; without one, return NO_CHANGES.
ResolveTarget ==
  /\ pc = "resolve"
  /\ LET found == findCreditCardPaymentMethod(policy, Get(input, "paymentMethods"))
     IN  /\ ccPaymentMethod' = found
         /\ IF Falsy(found)
            THEN /\ log' = log \o <<Line("resolve", "Found CC payment method:"),
                                    Line("resolve", "No credit card payment method found")>>
                 /\ result' = returnNoChanges(NO_CHANGES)
                 /\ pc' = "done"
            ELSE /\ log' = log \o <<Line("resolve", "Found CC payment method:")>>
                 /\ result' = result
                 /\ pc' = checkOrder(policy)[1]
  /\ UNCHANGED <<policy, NO_CHANGES, evaluated, input, calls>>
  /\ UNCHANGED inventoryVars
  /\ UNCHANGED webhookVars

\* Faulty variant: the hide operation is pushed onto the operations of the
\* shared NO_CHANGES object, which is then returned.
RunCheck_SharedResult(check, r, before, onFail) ==
  /\ calls' = Append(calls, [check |-> check, ret |-> r.ret, threw |-> r.threw])
  /\ IF r.threw
     THEN /\ log' = log \o before \o r.log
          /\ result' = Thrown
          /\ pc' = "done"
          /\ NO_CHANGES' = NO_CHANGES
     ELSE /\ pc' = afterCheck(policy, check, r.ret)
          /\ IF r.ret
             THEN /\ log' = log \o before \o r.log
                  /\ result' = result
                  /\ NO_CHANGES' = NO_CHANGES
             ELSE /\ log' = log \o before \o r.log
                            \o <<Line(check, onFail), Line(check, "Returning hide result:")>>
                  /\ NO_CHANGES' = NO_CHANGES \o hideResult(ccPaymentMethod).operations
                  /\ result' = returnNoChanges(NO_CHANGES')
  /\ UNCHANGED <<policy, evaluated, input, ccPaymentMethod>>
  /\ UNCHANGED inventoryVars
  /\ UNCHANGED webhookVars

\* One step of the body: a check is called with its argument, and on
\* failure the hide result is built and returned.
RunCheck(check, r, before, onFail) ==
  /\ calls' = Append(calls, [check |-> check, ret |-> r.ret, threw |-> r.threw])
  /\ IF r.threw
     THEN /\ log' = log \o before \o r.log
          /\ result' = Thrown
          /\ pc' = "done"
     ELSE /\ pc' = afterCheck(policy, check, r.ret)
          /\ IF r.ret
             THEN /\ log' = log \o before \o r.log
                  /\ result' = result
             ELSE /\ log' = log \o before \o r.log
                            \o <<Line(check, onFail), Line(check, "Returning hide result:")>>
                  /\ result' = hideResult(ccPaymentMethod)
  /\ UNCHANGED <<policy, NO_CHANGES, evaluated, input, ccPaymentMethod>>
  /\ UNCHANGED inventoryVars
  /\ UNCHANGED webhookVars

\* x || []
orEmpty(x) == IF Falsy(x) THEN Arr(<<>>) ELSE x

\* input.cart?.buyerIdentity?.customer and the other arguments of the checks.
customerOf(doc) == OptGet(OptGet(Get(doc, "cart"), "buyerIdentity"), "customer")
purchasingCompanyOf(doc) ==
  OptGet(OptGet(Get(doc, "cart"), "buyerIdentity"), "purchasingCompany")
cartLinesOf(doc) == orEmpty(OptGet(Get(doc, "cart"), "lines"))
deliveryGroupsOf(doc) == orEmpty(OptGet(Get(doc, "cart"), "deliveryGroups"))

\* The outcome of one check of the policy on a document.
checkOn(pol, doc, check) ==
  CASE check = "customer" -> isCustomerEligible(customerOf(doc))
    [] check = "location" -> isLocationEligible(purchasingCompanyOf(doc))
    [] check = "parcel" -> isCartParcelEligible(pol, cartLinesOf(doc))
    [] check = "shipping" -> isShippingMethodEligible(deliveryGroupsOf(doc))

\* The function as a whole, from its argument to its Decision (or its
\* failure): the checks from the i-th on, for a target that was found.
RECURSIVE runChecks(_, _, _, _, _)
runChecks(pol, doc, target, noChanges, i) ==
  IF i > Len(checkOrder(pol)) THEN returnNoChanges(noChanges)
  ELSE LET r == checkOn(pol, doc, checkOrder(pol)[i])
       IN  IF r.threw THEN Thrown
           ELSE IF ~r.ret THEN hideResult(target)
           ELSE runChecks(pol, doc, target, noChanges, i + 1)

cartPaymentMethodsTransformRun(pol, doc, noChanges) ==
  LET target == findCreditCardPaymentMethod(pol, Get(doc, "paymentMethods"))
  IN  IF Falsy(target) THEN returnNoChanges(noChanges)
      ELSE runChecks(pol, doc, target, noChanges, 1)

CheckCustomer ==
  /\ pc = "customer"
  /\ LET customer == customerOf(input)
     IN  RunCheck("customer", isCustomerEligible(customer),
                  <<Line("customer", "Customer data:")>>,
                  "Customer not eligible - hiding CC payment method")

CheckLocation ==
  /\ pc = "location"
  /\ LET purchasingCompany == purchasingCompanyOf(input)
     IN  RunCheck("location", isLocationEligible(purchasingCompany),
                  <<Line("location", "Purchasing company:")>>,
                  "Location not eligible - hiding CC payment method")

CheckParcel ==
  /\ pc = "parcel"
  /\ LET cartLines == cartLinesOf(input)
     IN  RunCheck("parcel", isCartParcelEligible(policy, cartLines),
                  <<Line("parcel", "Cart lines count:")>>,
                  "Cart contains non-parcel items - hiding CC payment method")

CheckShipping ==
  /\ pc = "shipping"
  /\ LET deliveryGroups == deliveryGroupsOf(input)
     IN  RunCheck("shipping", isShippingMethodEligible(deliveryGroups),
                  <<Line("shipping", "Delivery groups count:")>>,
                  "Selected shipping method not eligible - hiding CC payment method")

\* All checks passed: return NO_CHANGES.
ReturnNoChanges ==
  /\ pc = "completed"
  /\ log' = log \o <<Line("main", "All eligibility checks passed - showing CC payment method"),
                     Line("main", "=== CC Payment Eligibility Function Completed ===")>>
  /\ result' = returnNoChanges(NO_CHANGES)
  /\ pc' = "done"
  /\ UNCHANGED <<policy, NO_CHANGES, evaluated, input, ccPaymentMethod, calls>>
  /\ UNCHANGED inventoryVars
  /\ UNCHANGED webhookVars

\* The host takes the Decision (or the failure); the run is over.
Consume ==
  /\ pc = "done"
  /\ pc' = "idle"
  /\ input' = UNDEFINED
  /\ ccPaymentMethod' = UNDEFINED
  /\ calls' = <<>>
  /\ log' = <<>>
  /\ result' = Pending
  /\ evaluated' = TRUE
  /\ UNCHANGED <<policy, NO_CHANGES>>
  /\ UNCHANGED inventoryVars
  /\ UNCHANGED webhookVars

Next ==
  \/ Invoke
  \/ ResolveTarget
  \/ CheckCustomer
  \/ CheckLocation
  \/ CheckParcel
  \/ CheckShipping
  \/ ReturnNoChanges
  \/ Consume

Spec == Init /\ [][Next]_vars

(***************************************************************************)
(* A caller that alters the Decision it was handed.  `return NO_CHANGES`    *)
(* hands out the module's own object, so its operations array is the one     *)
(* every later `return NO_CHANGES` hands out again; a hide result is a       *)
(* fresh object literal.                                                    *)
(***************************************************************************)
CallerOperation == [paymentMethodHide |-> [paymentMethodId |-> Str(<<"p", "m", "1">>)]]

\* result.operations.push(...) by the caller, on a Decision that is the
\* NO_CHANGES object.  (result keeps the Decision as it was returned.)
CallerAlters ==
  /\ pc = "done"
  /\ result.kind = "return"
  /\ result.ref = "NO_CHANGES"
  /\ Len(NO_CHANGES) < MaxAppended
  /\ NO_CHANGES' = Append(NO_CHANGES, CallerOperation)
  /\ UNCHANGED <<policy, evaluated, input, pc, ccPaymentMethod, calls, log, result>>
  /\ UNCHANGED inventoryVars
  /\ UNCHANGED webhookVars

NextCaller ==
  \/ Invoke
  \/ ResolveTarget
  \/ CheckCustomer
  \/ CheckLocation
  \/ CheckParcel
  \/ CheckShipping
  \/ ReturnNoChanges
  \/ Consume
  \/ CallerAlters

SpecCaller == Init /\ [][NextCaller]_vars

(***************************************************************************)
(* The actions of the two inventory routes, one step per await, and the     *)
(* platform.                                                                *)
(***************************************************************************)
ErrorResponse(message) == [kind |-> "error", error |-> message]

\* A request arrives: authentication, the fields of the request, validation.
\* A failed authentication is thrown by the admin route and answered with
\* an error by the proxy route.
Receive(r) ==
  /\ action[r].pc = "idle"
  /\ \E authenticated \in BOOLEAN :
     \E productId \in ProductIds(r) :
     \E quantityChange \in QuantityChanges(r) :
       LET validation == validateInventoryInput(productId, quantityChange)
       IN  action' = [action EXCEPT ![r] =
             IF ~authenticated
             THEN [Idle EXCEPT !.pc = "responded",
                               !.response = IF r = "admin" THEN [kind |-> "throw"]
                                            ELSE ErrorResponse("Authentication failed")]
             ELSE IF ~validation.isValid
             THEN [Idle EXCEPT !.pc = "responded",
                               !.productId = productId,
                               !.quantityChange = quantityChange,
                               !.response = ErrorResponse(validation.error)]
             ELSE [Idle EXCEPT !.pc = "validated",
                               !.productId = productId,
                               !.quantityChange = quantityChange,
                               !.quantityDelta = validation.quantityDelta]]
  /\ UNCHANGED stored
  /\ UNCHANGED cartVars
  /\ UNCHANGED webhookVars

\* Step 1: get the product's inventory data.
ReadInventory(r) ==
  /\ action[r].pc = "validated"
  /\ LET productData == getProductInventoryData(action[r].productId, stored)
     IN  action' = [action EXCEPT ![r] =
           IF Falsy(productData)
           THEN [@ EXCEPT !.pc = "responded",
                          !.response = ErrorResponse(
                             IF r = "admin" THEN "Product not found or has no variants"
                             ELSE "Product not found")]
           ELSE IF Falsy(productData.inventoryItemId)
           THEN [@ EXCEPT !.pc = "responded",
                          !.response = ErrorResponse("Product inventory is not tracked")]
           ELSE [@ EXCEPT !.pc = "read",
                          !.currentQuantity = productData.currentQuantity]]
  /\ UNCHANGED stored
  /\ UNCHANGED cartVars
  /\ UNCHANGED webhookVars

\* Steps 2 and 3: the new quantity is computed and handed to updateInventory,
\* which sends it with compareQuantity to the platform; a user error of
\* the platform is thrown, caught by the route and answered as an error.
UpdateInventory(r) ==
  /\ action[r].pc = "read"
  /\ LET currentQuantity == action[r].currentQuantity
         newQuantity == newQuantityOf(currentQuantity, action[r].quantityDelta)
         quantities == setQuantitiesInput(newQuantity, currentQuantity)
         refused == setQuantitiesRefused(quantities, stored)
         change == IF newQuantity.v = stored THEN UNDEFINED
                   ELSE [t |-> "object", delta |-> Num(newQuantity.v - stored),
                         quantityAfterChange |-> newQuantity]
         updated == updateInventoryResult(currentQuantity, change)
     IN  /\ stored' = IF refused THEN stored ELSE newQuantity.v
         /\ action' = [q \in Routes |->
              IF q = r
              THEN [action[r] EXCEPT
                      !.pc = "responded",
                      !.newQuantity = newQuantity,
                      !.submitted = quantities,
                      !.response =
                         IF refused
                         THEN ErrorResponse("quantities: compareQuantity")
                         ELSE [kind |-> "success", oldQuantity |-> currentQuantity,
                               newQuantity |-> updated.newQuantity,
                               delta |-> updated.delta]]
              ELSE IF ~refused /\ action[q].pc = "read"
                      /\ action[q].currentQuantity = currentQuantity
              THEN [action[q] EXCEPT !.raced = TRUE]
              ELSE action[q]]
  /\ UNCHANGED cartVars
  /\ UNCHANGED webhookVars

\* The response is sent; the action is over.
Respond(r) ==
  /\ action[r].pc = "responded"
  /\ action' = [action EXCEPT ![r] = Idle]
  /\ UNCHANGED stored
  /\ UNCHANGED cartVars
  /\ UNCHANGED webhookVars

\* The platform's quantity changes outside the app (a sale, a restock).
PlatformAdjust ==
  /\ \E quantity \in {stored - 1, stored + 1} \cap (0..MaxQuantity) : stored' = quantity
  /\ UNCHANGED action
  /\ UNCHANGED cartVars
  /\ UNCHANGED webhookVars

InitInventory == Init /\ policy = "extended"

NextInventory ==
  \/ \E r \in Routes : Receive(r)
  \/ \E r \in Routes : ReadInventory(r)
  \/ \E r \in Routes : UpdateInventory(r)
  \/ \E r \in Routes : Respond(r)
  \/ PlatformAdjust

SpecInventory == InitInventory /\ [][NextInventory]_vars

(***************************************************************************)
(* The webhook handler: its action up to the response, and the steps of     *)
(* the processWebhookAsync call it leaves running.                          *)
(***************************************************************************)
\* The platform delivers webhook w; authenticate.webhook is awaited.
ReceiveWebhook(w) ==
  /\ delivery[w].pc = "waiting"
  /\ \E valid \in BOOLEAN :
     \E payload \in Payloads :
       delivery' = [delivery EXCEPT ![w] =
         [@ EXCEPT !.pc = "authenticating",
                   !.valid = valid,
                   !.payload = IF valid THEN payload ELSE UNDEFINED]]
  /\ UNCHANGED webhookEvent
  /\ UNCHANGED cartVars
  /\ UNCHANGED inventoryVars

\* The rest of the action, which has no await.  A failed authentication is
\* caught and answered.  Otherwise processWebhookAsync is called and runs
\* up to its first await (the database write inside logInventoryWebhook is
\* started), or into its catch block when the payload cannot be read; the
\* action attaches its catch and answers.
AnswerWebhook(w) ==
  /\ delivery[w].pc = "authenticating"
  /\ delivery' = [delivery EXCEPT ![w] =
       IF ~delivery[w].valid
       THEN [@ EXCEPT !.pc = "answered", !.response = okResponse]
       ELSE IF Throws(delivery[w].payload)
       THEN [@ EXCEPT !.pc = "answered", !.response = okResponse,
                      !.processing = settled("payload"), !.failure = "payload"]
       ELSE [@ EXCEPT !.pc = "answered", !.response = okResponse,
                      !.processing = "logging"]]
  /\ UNCHANGED webhookEvent
  /\ UNCHANGED cartVars
  /\ UNCHANGED inventoryVars

\* prisma.webhookEvent.create settles: the row is there and
\* notifyExternalPIM is called, or logInventoryWebhook rethrows the error
\* into the catch block of processWebhookAsync.
LogSettles(w) ==
  /\ delivery[w].processing = "logging"
  /\ \E created \in BOOLEAN :
       IF created
       THEN /\ webhookEvent' = webhookEvent \cup {loggedEvent(w, delivery[w].payload)}
            /\ delivery' = [delivery EXCEPT ![w].processing = "notifying"]
       ELSE /\ webhookEvent' = webhookEvent
            /\ delivery' = [delivery EXCEPT ![w].processing = settled("log"),
                                            ![w].failure = "log"]
  /\ UNCHANGED cartVars
  /\ UNCHANGED inventoryVars

\* notifyExternalPIM settles (the call to the external system may fail).
NotifySettles(w) ==
  /\ delivery[w].processing = "notifying"
  /\ \E notified \in BOOLEAN :
       delivery' = [delivery EXCEPT
                      ![w].processing = settled(IF notified THEN "none" ELSE "pim"),
                      ![w].failure = IF notified THEN "none" ELSE "pim"]
  /\ UNCHANGED webhookEvent
  /\ UNCHANGED cartVars
  /\ UNCHANGED inventoryVars

InitWebhook == Init /\ policy = "extended"

NextWebhook ==
  \/ \E w \in Webhooks : ReceiveWebhook(w)
  \/ \E w \in Webhooks : AnswerWebhook(w)
  \/ \E w \in Webhooks : LogSettles(w)
  \/ \E w \in Webhooks : NotifySettles(w)

\* Once authenticate.webhook has settled, the event loop runs the rest of
\* the action; nothing makes the database or the external system answer.
SpecWebhook ==
  InitWebhook /\ [][NextWebhook]_vars /\ \A w \in Webhooks : WF_vars(AnswerWebhook(w))

(***************************************************************************)
(* Properties.                                                              *)
(***************************************************************************)
Running == pc \notin {"idle", "resolve"}

paymentMethodsOf(doc) == Get(doc, "paymentMethods")

\* Some payment method of the document is resolved as the target.
TargetFound == ~Falsy(findCreditCardPaymentMethod(policy, paymentMethodsOf(input)))

IsNoChange(r) == r.kind = "return" /\ r.operations = <<>>

IsHide(r, id) ==
  /\ r.kind = "return"
  /\ r.operations = <<[paymentMethodHide |-> [paymentMethodId |-> id]]>>

Passes(pol, doc, check) ==
  LET r == checkOn(pol, doc, check) IN ~r.threw /\ r.ret

Fails(pol, doc, check) ==
  LET r == checkOn(pol, doc, check) IN ~r.threw /\ ~r.ret

\* The checks each policy runs, in order, as the specification lists them.
PolicyChecks ==
  IF policy = "extended" THEN <<"customer", "location", "parcel", "shipping">>
  ELSE <<"customer", "parcel">>

Rank(check) ==
  CASE check = "main" -> 0
    [] check = "resolve" -> 0
    [] check = "customer" -> 1
    [] check = "location" -> 2
    [] check = "parcel" -> 3
    [] check = "shipping" -> 4

\* C1: in both policy variants, when no payment method is resolved as the
\* target (list absent, empty, or no name matches), the run ends with
\* NoChange (operations = []) whatever the customer, company, lines and
\* delivery groups are, and no predicate check is executed.
C1_NoTargetNoChange ==
  (Running /\ ~TargetFound) =>
    /\ pc = "done"
    /\ IsNoChange(result)
    /\ calls = <<>>
    /\ \A k \in DOMAIN log : log[k].check \in {"main", "resolve"}

\* A run without a target has ended although the customer is absent and the
\* cart holds a line over the weight limit.
C1_Witness ==
  /\ pc = "done"
  /\ ~TargetFound
  /\ paymentMethodsOf(input).t = "array"
  /\ Len(paymentMethodsOf(input).v) > 0
  /\ Fails(policy, input, "customer")
  /\ Fails(policy, input, "parcel")
  /\ IsNoChange(result)

\* C2: with a target found, the checks run strictly in the order customer,
\* location, parcel, shipping (extended) or customer, parcel (base); a
\* returned result is HidePaymentMethod with the target's id if and only if
\* at least one of these checks fails and NoChange if and only if all of
\* them pass; a found target with an absent customer always yields
\* HidePaymentMethod.
C2_OrderedChecksDecide ==
  (Running /\ TargetFound) =>
    /\ Len(calls) <= Len(PolicyChecks)
    /\ \A i \in DOMAIN calls : calls[i].check = PolicyChecks[i]
    /\ (pc = "done" /\ result.kind = "return") =>
         /\ IsHide(result, Get(ccPaymentMethod, "id"))
              <=> \E i \in DOMAIN PolicyChecks : Fails(policy, input, PolicyChecks[i])
         /\ IsNoChange(result)
              <=> \A i \in DOMAIN PolicyChecks : Passes(policy, input, PolicyChecks[i])
    /\ (pc = "done" /\ IsNullish(customerOf(input))) =>
         IsHide(result, Get(ccPaymentMethod, "id"))

\* An extended-policy run has called all four checks and returned NoChange
\* for a B2B cart with a line and a selected delivery option.
C2_Witness ==
  /\ pc = "done"
  /\ policy = "extended"
  /\ TargetFound
  /\ Len(calls) = 4
  /\ IsNoChange(result)
  /\ ~IsNullish(purchasingCompanyOf(input))
  /\ Len(cartLinesOf(input).v) > 0

\* C3: a returned Decision has 0 or 1 operations; the single operation is a
\* paymentMethodHide whose paymentMethodId is the id of the resolved target,
\* an element of input.paymentMethods; no other method is hidden.
C3_AtMostOneHideOfTarget ==
  (pc = "done" /\ result.kind = "return") =>
    /\ Len(result.operations) \in {0, 1}
    /\ Len(result.operations) = 1 =>
         LET ms == paymentMethodsOf(input).v
             target == findCreditCardPaymentMethod(policy, paymentMethodsOf(input))
         IN  /\ \E i \in DOMAIN ms : ms[i] = target
             /\ result.operations[1] =
                  [paymentMethodHide |-> [paymentMethodId |-> target.id]]

\* A hide has been returned for a list whose target is not its first method.
C3_Witness ==
  /\ pc = "done"
  /\ result.kind = "return"
  /\ Len(result.operations) = 1
  /\ Len(paymentMethodsOf(input).v) = 2
  /\ ccPaymentMethod = paymentMethodsOf(input).v[2]
  /\ result.operations[1].paymentMethodHide.paymentMethodId = Str(<<"p", "m", "2">>)

\* C4: once a check has failed, no later check is invoked and no log line
\* of a later check is written before the hide result is returned.
C4_ShortCircuit ==
  \A i \in DOMAIN calls :
    (~calls[i].threw /\ ~calls[i].ret) =>
      /\ i = Len(calls)
      /\ pc = "done"
      /\ IsHide(result, Get(ccPaymentMethod, "id"))
      /\ \A k \in DOMAIN log : Rank(log[k].check) <= Rank(calls[i].check)

\* The customer check has failed in an extended-policy run whose location
\* and parcel checks would fail too, and only the customer check was called.
C4_Witness ==
  /\ pc = "done"
  /\ policy = "extended"
  /\ Len(calls) = 1
  /\ ~calls[1].ret
  /\ Fails(policy, input, "location")
  /\ Fails(policy, input, "parcel")

\* The record of the call of a check in the current run.
Called(check) == \E i \in DOMAIN calls : calls[i].check = check

callOf(check) == calls[CHOOSE i \in DOMAIN calls : calls[i].check = check]

\* The value of a metafield is exactly the string "true".
IsExactlyTrue(attribute) == attribute.t = "object" /\ attribute.value = Str(S_true)

\* C5: isCustomerEligible returns true if and only if the customer is
\* present and customer.ccPilotEligible.value is exactly the string "true";
\* for an absent customer, an absent attribute or any other value ("TRUE",
\* "1", "", a number, a native boolean) it returns false without an error.
C5_CustomerEligibleIffExactlyTrue ==
  Called("customer") =>
    LET customer == customerOf(input)
    IN  /\ ~callOf("customer").threw
        /\ callOf("customer").ret
             <=> (customer.t = "object" /\ IsExactlyTrue(customer.ccPilotEligible))

\* The customer check has returned false for a customer whose attribute
\* is "TRUE".
C5_Witness ==
  /\ Called("customer")
  /\ ~callOf("customer").ret
  /\ customerOf(input) = Customer(Metafield(Str(<<"T", "R", "U", "E">>)))

\* C6: isLocationEligible (extended policy) returns true when
\* purchasingCompany is absent (B2C); with a purchasingCompany it returns
\* false if the location is absent and otherwise true if and only if
\* location.ccLocationEligible.value is exactly the string "true".
C6_LocationEligible ==
  Called("location") =>
    LET purchasingCompany == purchasingCompanyOf(input)
        r == callOf("location")
    IN  /\ policy = "extended"
        /\ ~r.threw
        /\ IsNullish(purchasingCompany) => r.ret
        /\ (~IsNullish(purchasingCompany) /\ IsNullish(purchasingCompany.location))
             => ~r.ret
        /\ (~IsNullish(purchasingCompany) /\ ~IsNullish(purchasingCompany.location))
             => (r.ret <=> IsExactlyTrue(purchasingCompany.location.ccLocationEligible))

\* The location check has passed a cart without a purchasing company whose
\* customer check had passed as well.
C6_Witness ==
  /\ Called("location")
  /\ callOf("location").ret
  /\ IsNullish(purchasingCompanyOf(input))
  /\ callOf("customer").ret

\* Every cart line is a product variant (of a product) with a weight in
\* (0, 150].
AllLinesInWeightRange ==
  \A i \in DOMAIN cartLinesOf(input).v :
    LET merchandise == Get(cartLinesOf(input).v[i], "merchandise")
    IN  /\ merchandise.t = "object"
        /\ merchandise.__typename = Str(S_ProductVariant)
        /\ merchandise.product.t = "object"
        /\ merchandise.weight.t = "number"
        /\ merchandise.weight.v > 0
        /\ merchandise.weight.v <= 150

\* The title of a selected delivery option holds an allow-list entry.
TitleOnAllowList(option) ==
  /\ Get(option, "title").t = "string"
  /\ \/ includes(toLowerCase(option.title.v), S_home_delivery)
     \/ includes(toLowerCase(option.title.v), S_express_saver)

AllSelectedOptionsAllowed ==
  \A i \in DOMAIN deliveryGroupsOf(input).v :
    LET option == Get(deliveryGroupsOf(input).v[i], "selectedDeliveryOption")
    IN  ~IsNullish(option) => TitleOnAllowList(option)

\* Each line has its product, and no product carries a disqualifying flag.
NoLineFlagged ==
  \A i \in DOMAIN cartLinesOf(input).v :
    LET product == Get(Get(cartLinesOf(input).v[i], "merchandise"), "product")
    IN  /\ product.t = "object"
        /\ OptGet(product.requiresLtl, "value") # Str(S_true)
        /\ OptGet(product.isParcelEligible, "value") # Str(S_false)

C7_Case ==
  /\ pc = "done"
  /\ TargetFound
  /\ customerOf(input).t = "object"
  /\ IsExactlyTrue(customerOf(input).ccPilotEligible)
  /\ IsNullish(purchasingCompanyOf(input))
  /\ AllLinesInWeightRange
  /\ policy = "extended" => AllSelectedOptionsAllowed

\* C7 (as stated): in both policy variants, a found target, a customer with
\* ccPilotEligible.value "true", no purchasingCompany, every line a product
\* variant with a weight in (0,150] and (extended) every selected delivery
\* option on the allow-list give NoChange.
C7_EligibleCartNoChange == C7_Case => IsNoChange(result)

\* C7 (amended): the same, provided that under the base policy no line's
\* product is flagged requiresLtl "true" or isParcelEligible "false".
C7_EligibleUnflaggedCartNoChange ==
  (C7_Case /\ (policy = "base" => NoLineFlagged)) => IsNoChange(result)

\* A base-policy run has returned NoChange for a cart whose line, in the
\* weight range, carries flags that do not disqualify it.
C7_Witness ==
  /\ C7_Case
  /\ policy = "base"
  /\ NoLineFlagged
  /\ \E i \in DOMAIN cartLinesOf(input).v :
       cartLinesOf(input).v[i].merchandise.product.requiresLtl = Metafield(Str(S_false))
  /\ IsNoChange(result)

\* The weights of the lines of the cart.
LineWeights ==
  {Get(Get(cartLinesOf(input).v[i], "merchandise"), "weight") :
     i \in DOMAIN cartLinesOf(input).v}

\* A target is found, every check but the parcel check passes, and every
\* line is an unflagged product variant with a positive weight.
C8_Case ==
  /\ pc = "done"
  /\ TargetFound
  /\ Passes(policy, input, "customer")
  /\ policy = "extended" =>
       Passes(policy, input, "location") /\ Passes(policy, input, "shipping")
  /\ Len(cartLinesOf(input).v) > 0
  /\ NoLineFlagged
  /\ \A i \in DOMAIN cartLinesOf(input).v :
       Get(cartLinesOf(input).v[i], "merchandise").__typename = Str(S_ProductVariant)
  /\ \A w \in LineWeights : w.t = "number" /\ w.v > 0

\* C8: in both policy variants, with a target found and every other check
\* passing, a line of weight exactly 150 does not disqualify the cart
\* (NoChange) while a line of weight 151 or more yields HidePaymentMethod
\* with the target's id: the comparison is strictly greater than 150.
C8_WeightBoundary ==
  C8_Case =>
    /\ (\A w \in LineWeights : w.v <= 150) => IsNoChange(result)
    /\ (\E w \in LineWeights : w.v >= 151) => IsHide(result, Get(ccPaymentMethod, "id"))

\* A cart with a line of weight exactly 150 has been left unchanged.
C8_Witness ==
  /\ C8_Case
  /\ Num(150) \in LineWeights
  /\ IsNoChange(result)

\* The lines of the cart, each a product variant with its product.
ProductVariantLines ==
  /\ Len(cartLinesOf(input).v) > 0
  /\ \A i \in DOMAIN cartLinesOf(input).v :
       LET merchandise == Get(cartLinesOf(input).v[i], "merchandise")
       IN  /\ merchandise.t = "object"
           /\ merchandise.__typename = Str(S_ProductVariant)
           /\ merchandise.product.t = "object"

\* The flags requiresLtl and isParcelEligible are absent from every line.
FlagsAbsent ==
  \A i \in DOMAIN cartLinesOf(input).v :
    LET product == cartLinesOf(input).v[i].merchandise.product
    IN  IsNullish(product.requiresLtl) /\ IsNullish(product.isParcelEligible)

\* Extended policy: a line whose weight is 0, null or absent makes the
\* parcel check return false.
C9_ExtendedMissingWeightFails ==
  (policy = "extended" /\ Called("parcel") /\ ProductVariantLines
     /\ LineWeights \cap {Num(0), NULL, UNDEFINED} # {})
    => (~callOf("parcel").threw /\ ~callOf("parcel").ret)

\* C9 (as stated): under the extended policy a product-variant line whose
\* weight is 0, null or absent makes isCartParcelEligible return false;
\* under the base policy a line whose weight is absent passes, and a line
\* whose weight is 0 passes whenever its flags are absent.
C9_MissingWeightDivergence ==
  /\ C9_ExtendedMissingWeightFails
  /\ (policy = "base" /\ Called("parcel") /\ ProductVariantLines
        /\ LineWeights = {UNDEFINED})
       => (~callOf("parcel").threw /\ callOf("parcel").ret)
  /\ (policy = "base" /\ Called("parcel") /\ ProductVariantLines
        /\ LineWeights = {Num(0)} /\ FlagsAbsent)
       => (~callOf("parcel").threw /\ callOf("parcel").ret)

\* C9 (amended): under the extended policy as stated; under the base policy
\* a line whose weight is absent or 0 passes unless its product is flagged
\* requiresLtl "true" or isParcelEligible "false", and so whenever both
\* flags are absent.
C9_MissingWeightDivergenceUnlessFlagged ==
  /\ C9_ExtendedMissingWeightFails
  /\ (policy = "base" /\ Called("parcel") /\ ProductVariantLines
        /\ LineWeights \subseteq {UNDEFINED, Num(0)})
       => /\ ~callOf("parcel").threw
          /\ callOf("parcel").ret <=> NoLineFlagged
          /\ FlagsAbsent => callOf("parcel").ret

\* The base policy has passed a cart whose one line has no weight and no
\* flags.
C9_Witness ==
  /\ policy = "base"
  /\ Called("parcel")
  /\ ProductVariantLines
  /\ LineWeights = {UNDEFINED}
  /\ FlagsAbsent
  /\ callOf("parcel").ret

\* The name of a payment method holds "gift", whatever the case.
NamesGift(method) ==
  /\ Get(method, "name").t = "string"
  /\ includes(toLowerCase(method.name.v), S_gift)

\* The methods of the document that are no gift cards and that the
\* policy's allow-list accepts.
GenuineTargets ==
  LET ms == paymentMethodsOf(input).v
  IN  {i \in DOMAIN ms : ~NamesGift(ms[i]) /\ matches(policy, ms[i])}

\* C10: in both policy variants the target resolver never selects a method
\* whose name contains "gift", even when the name also contains an
\* allow-list substring; when such a method precedes a genuine credit-card
\* method, the credit-card method is the one targeted.
C10_GiftNeverTargeted ==
  (Running /\ paymentMethodsOf(input).t = "array") =>
    /\ ~Falsy(ccPaymentMethod) => ~NamesGift(ccPaymentMethod)
    /\ GenuineTargets # {} =>
         ccPaymentMethod =
           paymentMethodsOf(input).v[CHOOSE i \in GenuineTargets :
                                       \A j \in GenuineTargets : i <= j]

\* The name pattern of each policy: a non-empty name that holds, whatever
\* the case, one of "credit", "card", "visa", "mastercard" (base), or one of
\* "credit", "bogus", "stripe" and not "gift" (extended).
NameHolds(method, sub) == includes(toLowerCase(method.name.v), sub)

MatchesPattern(method) ==
  /\ Get(method, "name").t = "string"
  /\ method.name.v # <<>>
  /\ IF policy = "base"
     THEN \E sub \in {S_credit, S_card, S_visa, S_mastercard} : NameHolds(method, sub)
     ELSE /\ ~NameHolds(method, S_gift)
          /\ \E sub \in {S_credit, S_bogus, S_stripe} : NameHolds(method, sub)

\* C11: the target resolver returns the first element of paymentMethods, in
\* input order, whose name matches the policy's pattern (of two matching
\* methods only the earlier is targeted); it yields no target, and no
\* error, when the list is absent or empty, when nothing matches and when
\* the candidates have an absent or empty name.
C11_FirstMatchIsTarget ==
  Running =>
    LET pm == paymentMethodsOf(input)
    IN  IF pm.t # "array" THEN Falsy(ccPaymentMethod)
        ELSE LET ms == pm.v
                 hits == {i \in DOMAIN ms : MatchesPattern(ms[i])}
             IN  /\ hits = {} => Falsy(ccPaymentMethod)
                 /\ \A i \in hits :
                      (\A j \in hits : i <= j) => ccPaymentMethod = ms[i]
                 /\ (hits = {} /\ pc = "done") => IsNoChange(result)

\* Two methods of the list match and the first of them is the target.
C11_Witness ==
  /\ Running
  /\ policy = "extended"
  /\ paymentMethodsOf(input).t = "array"
  /\ Len(paymentMethodsOf(input).v) = 2
  /\ \A i \in {1, 2} : MatchesPattern(paymentMethodsOf(input).v[i])
  /\ paymentMethodsOf(input).v[1] # paymentMethodsOf(input).v[2]
  /\ ccPaymentMethod = paymentMethodsOf(input).v[1]

\* A title or handle holds, lowercased, an allow-list entry.
OnAllowList(x) ==
  /\ x.t = "string"
  /\ \/ includes(toLowerCase(x.v), S_home_delivery)
     \/ includes(toLowerCase(x.v), S_express_saver)

\* The selected delivery options of the document.
SelectedOptions ==
  {Get(deliveryGroupsOf(input).v[i], "selectedDeliveryOption") :
     i \in DOMAIN deliveryGroupsOf(input).v} \ {UNDEFINED, NULL}

\* C12: in isShippingMethodEligible a group with a selected option is
\* accepted when the lowercased title or the lowercased handle of the option
\* contains "home delivery" or "express saver", and is rejected only when
\* neither the title nor the handle contains one of them.
C12_TitleOrHandleAccepted ==
  Called("shipping") =>
    (callOf("shipping").ret
       <=> \A option \in SelectedOptions :
             OnAllowList(Get(option, "title")) \/ OnAllowList(Get(option, "handle")))

Reverse(s) == [i \in 1..Len(s) |-> s[Len(s) + 1 - i]]

\* C13: isShippingMethodEligible returns true when deliveryGroups is absent
\* or empty and when no group has a selected option; otherwise it returns
\* true if and only if every group with a selected option is accepted (by
\* the test of its title), so one rejected selected group fails the cart
\* whatever the other groups are and whatever their order.
C13_EverySelectedGroupAccepted ==
  /\ \A none \in {UNDEFINED, NULL, Arr(<<>>)} :
       LET r == isShippingMethodEligible(none) IN ~r.threw /\ r.ret
  /\ Called("shipping") =>
       LET r == callOf("shipping")
           groups == deliveryGroupsOf(input).v
       IN  /\ ~r.threw
           /\ SelectedOptions = {} => r.ret
           /\ r.ret <=> \A option \in SelectedOptions : OnAllowList(Get(option, "title"))
           /\ isShippingMethodEligible(Arr(Reverse(groups))).ret = r.ret

\* The shipping check has failed a cart whose first group is accepted and
\* whose second group is rejected.
C13_Witness ==
  /\ Called("shipping")
  /\ ~callOf("shipping").ret
  /\ Len(deliveryGroupsOf(input).v) = 2
  /\ OnAllowList(Get(Get(deliveryGroupsOf(input).v[1], "selectedDeliveryOption"), "title"))
  /\ ~IsNullish(Get(deliveryGroupsOf(input).v[2], "selectedDeliveryOption"))

\* What a run hands to its caller: the operations of its Decision, or its failure.
Outcome(r) ==
  IF r.kind = "return" THEN [kind |-> "return", operations |-> r.operations]
  ELSE [kind |-> r.kind]

Hides(r) == r.kind = "return" /\ r.operations # <<>>

extendedRun == cartPaymentMethodsTransformRun("extended", input, NO_CHANGES)
baseRun == cartPaymentMethodsTransformRun("base", input, NO_CHANGES)

\* Both variants resolve the same payment method as the target, or none.
SameTarget ==
  findCreditCardPaymentMethod("extended", paymentMethodsOf(input))
    = findCreditCardPaymentMethod("base", paymentMethodsOf(input))

\* Every line is either no product variant, or a product variant of a
\* product without a disqualifying flag, with a non-zero numeric weight.
LinesJudgedAlike ==
  \A i \in DOMAIN cartLinesOf(input).v :
    LET merchandise == Get(cartLinesOf(input).v[i], "merchandise")
    IN  /\ merchandise.t = "object"
        /\ merchandise.__typename = Str(S_ProductVariant) =>
             /\ merchandise.product.t = "object"
             /\ OptGet(merchandise.product.requiresLtl, "value") # Str(S_true)
             /\ OptGet(merchandise.product.isParcelEligible, "value") # Str(S_false)
             /\ merchandise.weight.t = "number"
             /\ merchandise.weight.v # 0

\* C14 (as stated): on every input on which the location check and the
\* shipping-method check pass, the extended evaluator returns the Decision of
\* the base evaluator; and every input the base policy hides the target on
\* is hidden by the extended policy.
C14_StrictExtension ==
  pc = "done" =>
    /\ (Passes("extended", input, "location") /\ Passes("extended", input, "shipping"))
         => Outcome(extendedRun) = Outcome(baseRun)
    /\ Hides(baseRun) => Hides(extendedRun)

\* C14 (amended): the run of the model is the evaluator of its policy; and
\* on the inputs on which both variants resolve the same target and judge
\* the lines alike, the extended evaluator returns the Decision of the base
\* evaluator when the location and the shipping-method checks pass, and
\* hides whatever the base evaluator hides.
C14_ExtensionWhereVariantsAgree ==
  pc = "done" =>
    /\ result = cartPaymentMethodsTransformRun(policy, input, NO_CHANGES)
    /\ (SameTarget /\ LinesJudgedAlike) =>
         /\ (Passes("extended", input, "location")
               /\ Passes("extended", input, "shipping"))
              => Outcome(extendedRun) = Outcome(baseRun)
         /\ Hides(baseRun) => Hides(extendedRun)

\* A business customer of an eligible location, no delivery option refused,
\* a line over the weight limit: both evaluators hide the same target.
C14_Witness ==
  /\ pc = "done"
  /\ policy = "extended"
  /\ SameTarget /\ TargetFound /\ LinesJudgedAlike
  /\ ~Falsy(purchasingCompanyOf(input))
  /\ Passes("extended", input, "location")
  /\ Passes("extended", input, "shipping")
  /\ Len(cartLinesOf(input).v) > 0
  /\ Hides(result) /\ Hides(baseRun)
  /\ Outcome(result) = Outcome(baseRun)

\* The loop body of isCartParcelEligible with its console.log statements
\* removed.  In the extended policy the product is read by the log lines
\* only; in the base policy it is read by the flag tests.
parcelLineWithoutLogs(pol, line) ==
  LET merchandise == Get(line, "merchandise")
      weight == Get(merchandise, "weight")
  IN  IF pol = "base" THEN parcelLineBase(line).verdict
      ELSE IF Throws(merchandise) THEN "throw"
      ELSE IF Get(merchandise, "__typename") # Str(S_ProductVariant) THEN "fail"
      ELSE IF weight = NULL \/ weight = UNDEFINED \/ weight = Num(0) THEN "fail"
      ELSE IF exceedsWeightLimit(weight) THEN "fail"
      ELSE "pass"

RECURSIVE parcelLoopWithoutLogs(_, _, _)
parcelLoopWithoutLogs(pol, lines, i) ==
  IF i > Len(lines) THEN Returned(TRUE, <<>>)
  ELSE LET here == parcelLineWithoutLogs(pol, lines[i])
       IN  CASE here = "throw" -> Threw(<<>>)
             [] here = "fail" -> Returned(FALSE, <<>>)
             [] OTHER -> parcelLoopWithoutLogs(pol, lines, i + 1)

\* The checks without their log statements: only the parcel check reads
\* anything in a log statement that it does not read elsewhere.
checkWithoutLogs(pol, doc, check) ==
  IF check = "parcel" /\ ~Falsy(cartLinesOf(doc)) /\ Len(cartLinesOf(doc).v) > 0
  THEN parcelLoopWithoutLogs(pol, cartLinesOf(doc).v, 1)
  ELSE checkOn(pol, doc, check)

RECURSIVE runChecksWithoutLogs(_, _, _, _, _)
runChecksWithoutLogs(pol, doc, target, noChanges, i) ==
  IF i > Len(checkOrder(pol)) THEN returnNoChanges(noChanges)
  ELSE LET r == checkWithoutLogs(pol, doc, checkOrder(pol)[i])
       IN  IF r.threw THEN Thrown
           ELSE IF ~r.ret THEN hideResult(target)
           ELSE runChecksWithoutLogs(pol, doc, target, noChanges, i + 1)

runWithoutLogs(pol, doc, noChanges) ==
  LET target == findCreditCardPaymentMethod(pol, Get(doc, "paymentMethods"))
  IN  IF Falsy(target) THEN returnNoChanges(noChanges)
      ELSE runChecksWithoutLogs(pol, doc, target, noChanges, 1)

\* C15: the outcome of a run (its Decision, or its failure) is the outcome
\* of the same evaluator with all log statements removed.
C15_TracingDoesNotAffectOutcome ==
  pc = "done" => Outcome(result) = Outcome(runWithoutLogs(policy, input, NO_CHANGES))

\* C16: the Decision of an evaluation is the one the evaluator, as a
\* function of the policy and the input document alone, gives for its
\* input, whether or not other evaluations came before it.
C16_DecisionDeterminedByInput ==
  pc = "done" =>
    Outcome(result) = Outcome(cartPaymentMethodsTransformRun(policy, input, <<>>))

\* A later evaluation, after the outcome of an earlier one was taken, that
\* finds a target and returns no operations.
C16_Witness ==
  /\ pc = "done"
  /\ evaluated
  /\ TargetFound
  /\ IsNoChange(result)
  /\ Outcome(result) = Outcome(cartPaymentMethodsTransformRun(policy, input, <<>>))

\* The document has no cart, or its cart has no lines property, or no lines.
NoLines ==
  \/ IsNullish(Get(input, "cart"))
  \/ IsNullish(Get(Get(input, "cart"), "lines"))
  \/ Get(Get(input, "cart"), "lines") = Arr(<<>>)

\* C17: isCartParcelEligible returns true for undefined, null and the
\* empty list; the evaluator hands it the empty list when the cart or its
\* lines are absent; so with no lines the parcel check passes and a hide, if
\* any, comes from another check.
C17_NoLinesNeverHide ==
  /\ \A pol \in Policies : \A none \in {UNDEFINED, NULL, Arr(<<>>)} :
       LET r == isCartParcelEligible(pol, none) IN ~r.threw /\ r.ret
  /\ (pc # "idle" /\ NoLines) =>
       /\ cartLinesOf(input) = Arr(<<>>)
       /\ Passes(policy, input, "parcel")
       /\ Called("parcel") => (~callOf("parcel").threw /\ callOf("parcel").ret)
       /\ (pc = "done" /\ Hides(result)) =>
            (calls # <<>> /\ calls[Len(calls)].check # "parcel")

\* A cart without a lines property reaches the parcel check, which passes.
C17_Witness ==
  /\ pc = "done"
  /\ Get(input, "cart").t = "object"
  /\ IsNullish(Get(Get(input, "cart"), "lines"))
  /\ Called("parcel")
  /\ callOf("parcel").ret
  /\ IsNoChange(result)

\* Route r has handed a quantity to updateInventory.
Submitted(r) == action[r].submitted # UNDEFINED

\* C18: in both routes, for a request that validateInventoryInput accepted
\* and a current quantity that is not negative, the quantity handed to
\* updateInventory is max(0, currentQuantity + quantityDelta), with
\* quantityDelta the integer parsed from the request, and is never negative.
C18_SubmittedQuantityClamped ==
  \A r \in Routes :
    Submitted(r) =>
      LET validation ==
            validateInventoryInput(action[r].productId, action[r].quantityChange)
          current == action[r].currentQuantity.v
          delta == parseInt(action[r].quantityChange).v
      IN  /\ validation.isValid
          /\ action[r].quantityDelta = Num(delta)
          /\ current >= 0
          /\ action[r].submitted.compareQuantity = current
          /\ action[r].submitted.quantity
               = (IF current + delta > 0 THEN current + delta ELSE 0)
          /\ action[r].submitted.quantity >= 0

\* Both routes have submitted a quantity for a request that takes away more
\* than the current quantity: each submitted 0.
C18_Witness ==
  \A r \in Routes :
    /\ Submitted(r)
    /\ action[r].currentQuantity.v + action[r].quantityDelta.v < 0
    /\ action[r].submitted.quantity = 0

\* The merchandise of the line is there and is no product variant.
NotProductVariant(line) ==
  /\ Get(line, "merchandise").t = "object"
  /\ line.merchandise.__typename # Str(S_ProductVariant)

VariantOfProduct(line) ==
  /\ Get(line, "merchandise").t = "object"
  /\ line.merchandise.__typename = Str(S_ProductVariant)
  /\ line.merchandise.product.t = "object"

\* requiresLtl is exactly "true", or isParcelEligible is exactly "false", or
\* the weight is a number, not zero, above 150.
Disqualifying(line) ==
  LET product == line.merchandise.product
      weight == line.merchandise.weight
  IN  \/ product.requiresLtl.t = "object" /\ product.requiresLtl.value = Str(S_true)
      \/ product.isParcelEligible.t = "object"
           /\ product.isParcelEligible.value = Str(S_false)
      \/ weight.t = "number" /\ weight.v # 0 /\ weight.v > 150

\* C20: base policy.  A product-variant line (of a product) is refused
\* exactly when it is disqualifying and lets the loop go on otherwise; a
\* cart of such lines passes the parcel check exactly when none of its lines
\* is disqualifying.
C20_BaseLineDisqualifies ==
  (policy = "base" /\ Called("parcel")) =>
    LET lines == cartLinesOf(input).v
    IN  /\ \A i \in DOMAIN lines :
             VariantOfProduct(lines[i]) =>
               parcelLine("base", lines[i]).verdict
                 = (IF Disqualifying(lines[i]) THEN "fail" ELSE "pass")
        /\ (\A i \in DOMAIN lines : VariantOfProduct(lines[i])) =>
             /\ ~callOf("parcel").threw
             /\ callOf("parcel").ret <=> \A i \in DOMAIN lines : ~Disqualifying(lines[i])

\* Base policy: a line of weight 0 whose flags have values other than
\* "true" and "false" passes.
C20_Witness ==
  /\ pc = "done"
  /\ policy = "base"
  /\ Called("parcel")
  /\ Len(cartLinesOf(input).v) = 1
  /\ VariantOfProduct(cartLinesOf(input).v[1])
  /\ cartLinesOf(input).v[1].merchandise.product \in OddlyFlaggedProducts
  /\ cartLinesOf(input).v[1].merchandise.weight = Num(0)
  /\ callOf("parcel").ret
  /\ IsNoChange(result)

IsParcelLine(entry) == entry.check = "parcel"

\* Line k is the first line on which the loop body does not go on.
FirstStop(pol, lines, k) ==
  /\ k \in DOMAIN lines
  /\ parcelLine(pol, lines[k]).verdict # "pass"
  /\ \A j \in 1..(k - 1) : parcelLine(pol, lines[j]).verdict = "pass"

\* C21: the parcel check stops at the first line that disqualifies (the loop
\* body returns false on it): it returns false, and its result and log
\* lines are those of the list cut after that line, whatever the later lines
\* are; the same cut leaves a failure on a line unchanged.
C21_StopsAtFirstDisqualifyingLine ==
  Called("parcel") =>
    LET lines == cartLinesOf(input).v
        whole == isCartParcelEligible(policy, Arr(lines))
    IN  \A k \in DOMAIN lines :
          FirstStop(policy, lines, k) =>
            LET cut == isCartParcelEligible(policy, Arr(SubSeq(lines, 1, k)))
            IN  /\ whole = cut
                /\ callOf("parcel").ret = cut.ret
                /\ callOf("parcel").threw = cut.threw
                /\ parcelLine(policy, lines[k]).verdict = "fail" =>
                     /\ ~callOf("parcel").threw /\ ~callOf("parcel").ret
                     /\ cut.log = parcelLine(policy, lines[k]).log
                     /\ pc = "done" =>
                          SelectSeq(log, IsParcelLine)
                            = <<Line("parcel", "Cart lines count:")>> \o cut.log
                              \o <<Line("parcel",
                                     "Cart contains non-parcel items - hiding CC payment method"),
                                   Line("parcel", "Returning hide result:")>>

\* The first line disqualifies and the second has no merchandise: the
\* check returned false and the target is hidden.
C21_Witness ==
  /\ pc = "done"
  /\ Called("parcel")
  /\ Len(cartLinesOf(input).v) = 2
  /\ parcelLine(policy, cartLinesOf(input).v[1]).verdict = "fail"
  /\ IsNullish(Get(cartLinesOf(input).v[2], "merchandise"))
  /\ ~callOf("parcel").threw /\ ~callOf("parcel").ret
  /\ Hides(result)

\* C22: no state is kept between calls: every evaluation, also one after
\* the caller altered a Decision it was handed, returns the operations its
\* own input determines.
C22_NoStateBetweenCalls ==
  (pc = "done" /\ result.kind = "return") =>
    result.operations = cartPaymentMethodsTransformRun(policy, input, <<>>).operations

\* The processWebhookAsync call of webhook w is still running.
Processing(w) == delivery[w].processing \in {"logging", "notifying"}

\* What holds of webhook w in every state: the only answer is 200 'OK', it
\* is given once authentication is over, whatever its outcome; while the
\* database write or the notification is pending, and once they are over,
\* the answer is already out; and the promise of processWebhookAsync is
\* never rejected.
WebhookAnswered(w) ==
  /\ delivery[w].response \in {UNDEFINED, okResponse}
  /\ delivery[w].pc = "answered" <=> delivery[w].response = okResponse
  /\ delivery[w].processing # "none" => delivery[w].response = okResponse
  /\ (\E event \in webhookEvent : event.webhook = w) => delivery[w].response = okResponse
  /\ delivery[w].processing # "rejected"
  /\ delivery[w].failure # "none" => delivery[w].processing = "fulfilled"

\* C23: the handler answers every webhook, and always with 200 'OK'; the
\* answer does not wait for the database write or the notification; no
\* failure of the processing leaves processWebhookAsync as a rejection.
C23_AlwaysAnswersOk ==
  /\ [](\A w \in Webhooks : WebhookAnswered(w))
  /\ \A w \in Webhooks :
       (delivery[w].pc = "authenticating") ~> (delivery[w].response = okResponse)

\* One webhook failed authentication, the other was answered while its
\* database write was pending and the write failed afterwards: both 200.
C23_Witness ==
  /\ \A w \in Webhooks : delivery[w].response = okResponse
  /\ \E w \in Webhooks : ~delivery[w].valid /\ delivery[w].processing = "none"
  /\ \E w \in Webhooks :
       /\ delivery[w].valid
       /\ delivery[w].failure = "log"
       /\ delivery[w].processing = "fulfilled"

\* C24 (as stated): of two requests that read the same quantity before
\* either wrote, at most one write is applied: the request whose write comes
\* after an applied write of the other is answered with an error.
C24_SecondWriteRefused ==
  \A r \in Routes :
    (action[r].raced /\ Submitted(r)) => action[r].response.kind = "error"

\* C24 (amended): a write is applied only when the stored quantity is the
\* quantity the request read, and it then leaves max(0, stored + delta); a
\* request whose read is stale is refused, answers with an error and leaves
\* the stored quantity as it is.
C24_WriteOnlyOnFreshRead ==
  [][\A r \in Routes :
       (action[r].pc = "read" /\ action'[r].pc = "responded") =>
         LET current == action[r].currentQuantity.v
             sum == stored + action[r].quantityDelta.v
             target == IF sum > 0 THEN sum ELSE 0
         IN  /\ current # stored =>
                  (stored' = stored /\ action'[r].response.kind = "error")
             /\ action'[r].response.kind = "success" =>
                  (current = stored /\ stored' = target)
             /\ stored' # stored =>
                  (current = stored /\ action'[r].response.kind = "success")]_vars

\* Both requests read the same quantity; the write of one was applied and
\* changed it; the other was refused and answered with an error.
C24_Witness ==
  \E r \in Routes : \E q \in Routes \ {r} :
    /\ action[r].raced /\ Submitted(r)
    /\ action[r].response.kind = "error"
    /\ action[r].submitted.compareQuantity # stored
    /\ Submitted(q)
    /\ action[q].response.kind = "success"
    /\ action[q].submitted.compareQuantity = action[r].submitted.compareQuantity
    /\ action[q].submitted.quantity = stored

====
